---- MODULE Spec2Model ----
(***************************************************************************)
(* Reading-order reconstruction of the Five-Eyes OCR backend.              *)
(*                                                                         *)
(* Two code paths turn a list of OCR detections into vertical columns:     *)
(*   - the density-based path, sort_text_with_bbox / cluster_columns_dbscan*)
(*     / find_nearest_cluster, present twice: Backend/PaddleOCR/PaddleOCR.py*)
(*     (variant "PaddleOCR", no exception handling) and                    *)
(*     Backend/services/ocr_service.py (variant "services", try/except     *)
(*     fallbacks, called from run_paddle_ocr_analysis);                    *)
(*   - the sequential threshold path, group_words_by_vertical_lines of     *)
(*     Backend/Assets/AzureOCR/AzureOCR.py (variant "AzureOCR").           *)
(*                                                                         *)
(* Backend/api/ocr.py runs each analysis in a worker thread (variant       *)
(* "server"): the thread reports progress to a status store and to the     *)
(* database row of the analysis while the status and result handlers read  *)
(* both; PaddleOCR analyses share the directory OUTPUT_DIR.                *)
(*                                                                         *)
(* Numbers.  Box and polygon coordinates are integers (pixels).  A centre  *)
(* (x1 + x2) / 2 may be a half pixel, so center_x and center_y hold TWICE  *)
(* the value the code computes; every comparison against eps is scaled by  *)
(* the same factor.  A mean sum/len is never divided: two means are        *)
(* compared by cross-multiplication, which is exact.  Texts are strings;   *)
(* the glyphs of the scenarios are written in Latin letters.               *)
(***************************************************************************)
EXTENDS Integers, Sequences, FiniteSets, TLC

VARIABLES
    variant,        \* which code path runs: "PaddleOCR", "services", "AzureOCR",
                    \* "stats", "analyze_with_azure", "process_azure_result",
                    \* "process_paddle_result", "grouping_loop", "server"
    ocr_result,     \* density path input: [rec_boxes, rec_texts, rec_scores]
    words_data,     \* sequential path input: list of words (content, polygon)
    threshold,      \* sequential path parameter
    pc,             \* position inside the running function
    i,              \* loop index of the loop pc is in (1-based)
    text_boxes,     \* sort_text_with_bbox: text_boxes
    labels,         \* cluster_columns_dbscan: clustering.labels_
    clusters,       \* cluster_columns_dbscan: the dict `columns`, in insertion order
    columns,        \* sort_text_with_bbox: the list `columns`
    sorted_text,    \* sort_text_with_bbox: sorted_text
    full_text,      \* run_paddle_ocr_analysis / run_PaddleOCR: full_text
    avg_confidence, \* run_paddle_ocr_analysis: avg_confidence
    sorted_words,   \* group_words_by_vertical_lines: sorted_words
    current_line,   \* group_words_by_vertical_lines: current_line
    vertical_lines, \* group_words_by_vertical_lines: vertical_lines
    outcome,        \* "running", "returned", "raised" or "failed"
    confidence_score, \* the average confidence handed to the caller
    word_count,     \* the word_count handed to the caller
    ANALYSIS_STATUS, \* api/ocr.py: the status store, analysis_id -> entry
    db,             \* the table of OCRAnalysis rows, analysis_id -> row
    thread,         \* the worker thread of each analysis: its position and
                    \* its local variables
    OUTPUT_DIR,     \* services/ocr_service.py: the files of OUTPUT_DIR
    clock,          \* the time of the file system
    request,        \* the get_ocr_status call being handled
    status_response, \* the last status get_ocr_status reported, per analysis
    result_response \* the last outcome of get_ocr_result, per analysis

vars == <<variant, ocr_result, words_data, threshold, pc, i, text_boxes, labels,
          clusters, columns, sorted_text, full_text, avg_confidence,
          sorted_words, current_line, vertical_lines, outcome,
          confidence_score, word_count, ANALYSIS_STATUS, db, thread,
          OUTPUT_DIR, clock, request, status_response, result_response>>

\* the variables of the reading-order code paths
pipeline == <<variant, ocr_result, words_data, threshold, pc, i, text_boxes,
              labels, clusters, columns, sorted_text, full_text,
              avg_confidence, sorted_words, current_line, vertical_lines,
              outcome, confidence_score, word_count>>

\* the variables of the asynchronous analyses
server == <<ANALYSIS_STATUS, db, thread, OUTPUT_DIR, clock, request,
            status_response, result_response>>

-----------------------------------------------------------------------------
(* Bounds and program constants *)

\* longest input list of the free-form input family
MaxLen == 4

\* cluster_columns_dbscan: eps = 120 (pixels)
eps == 120
\* cluster_columns_dbscan: min_samples = 1
min_samples == 1
\* the label DBSCAN gives a noise point
NOISE == -1
\* group_words_by_vertical_lines: threshold: float = 50
DEFAULT_THRESHOLD == 50

\* avg_confidence = None: no average was computed
None == <<>>

-----------------------------------------------------------------------------
(* Small helpers *)

Abs(n) == IF n < 0 THEN 0 - n ELSE n

Range(s) == {s[k] : k \in 1..Len(s)}

RECURSIVE Sum(_)
Sum(s) == IF s = <<>> THEN 0 ELSE Head(s) + Sum(Tail(s))

\* the pairs of positions of s on which Less(a, b) would hold are given as the
\* set `less`: <<q, p>> \in less means key(s[q]) < key(s[p])
Pairs(s) == (1..Len(s)) \X (1..Len(s))

\* list.sort(key=...) / sorted(key=...): a stable sort; elements with equal
\* keys keep their order.
StableSort(s, less) ==
    LET n == Len(s)
        rank(p) == Cardinality({q \in 1..n :
                        \/ <<q, p>> \in less
                        \/ (<<p, q>> \notin less /\ q < p)}) + 1
    IN  [r \in 1..n |-> s[CHOOSE p \in 1..n : rank(p) = r]]

\* mutant of Join: " ".join(list of strings)
RECURSIVE JoinWithSpace(_)
JoinWithSpace(s) ==
    IF s = <<>> THEN ""
    ELSE IF Tail(s) = <<>> THEN Head(s)
         ELSE Head(s) \o " " \o JoinWithSpace(Tail(s))

\* "".join(list of strings)
RECURSIVE Join(_)
Join(s) == IF s = <<>> THEN "" ELSE Head(s) \o Join(Tail(s))

-----------------------------------------------------------------------------
(* Density-based path: sort_text_with_bbox                                   *)

\* center_x = (x1 + x2) / 2, held doubled
CenterX(box) == box[1] + box[3]
\* center_y = (y1 + y2) / 2, held doubled
CenterY(box) == box[2] + box[4]

\* the loop body that builds one entry of text_boxes; k is 1-based, the code's
\* index is 0-based
TextBox(k, box, text) ==
    [text |-> text, center_x |-> CenterX(box), center_y |-> CenterY(box),
     height |-> box[4] - box[2], box |-> box, index |-> k - 1]

\* zip(boxes, texts) stops at the shorter list
BuildTextBoxes(boxes, texts) ==
    LET n == IF Len(boxes) < Len(texts) THEN Len(boxes) ELSE Len(texts)
    IN  [k \in 1..n |-> TextBox(k, boxes[k], texts[k])]

\* mutant of FallbackTexts: the handler returns []
FallbackTextsEmpty(texts) == <<>>

\* the handler's return [text for text in texts]
FallbackTexts(texts) == [k \in 1..Len(texts) |-> texts[k]]

\* x1, y1, x2, y2 = box succeeds for every box (four numbers each)
Unpacks(boxes) == \A k \in 1..Len(boxes) : Len(boxes[k]) = 4

-----------------------------------------------------------------------------
(* sklearn.cluster.DBSCAN(eps, min_samples).fit(X).labels_ on 1-D points.   *)
(* X is the list of (doubled) center_x values.  A point's neighbourhood is  *)
(* every point within eps of it, itself included; a point is a core point   *)
(* when its neighbourhood has at least min_samples points.  Points are      *)
(* visited in index order; an unlabelled core point opens the next cluster  *)
(* (labels 0, 1, ...) and the cluster grows through the neighbourhoods of   *)
(* its core points over the points still unlabelled.  A point no cluster    *)
(* reaches keeps the label -1.  fit() raises ValueError on an array that    *)
(* holds no sample.                                                          *)

\* mutant of WithinEps: a neighbourhood that leaves out the distance eps
WithinEpsStrict(a, b) == Abs(a - b) < 2 * eps

WithinEps(a, b) == Abs(a - b) <= 2 * eps

Neighbors(X, p) == {q \in 1..Len(X) : WithinEps(X[p], X[q])}

\* mutant of IsCore: a core point needs more than min_samples neighbours
IsCoreStrict(X, p) == Cardinality(Neighbors(X, p)) > min_samples

IsCore(X, p) == Cardinality(Neighbors(X, p)) >= min_samples

RECURSIVE Expand(_, _, _)
Expand(X, lab, S) ==
    LET more == {q \in 1..Len(X) :
                    /\ lab[q] = NOISE
                    /\ \E p \in S : IsCore(X, p) /\ q \in Neighbors(X, p)}
    IN  IF more \subseteq S THEN S ELSE Expand(X, lab, S \cup more)

RECURSIVE LabelFrom(_, _, _, _)
LabelFrom(X, lab, p, label_num) ==
    IF p > Len(X) THEN lab
    ELSE IF lab[p] # NOISE \/ ~IsCore(X, p)
         THEN LabelFrom(X, lab, p + 1, label_num)
         ELSE LET C == Expand(X, lab, {p})
              IN  LabelFrom(X, [q \in 1..Len(X) |->
                                   IF q \in C THEN label_num ELSE lab[q]],
                            p + 1, label_num + 1)

\* np.array([[...] for item in text_boxes]) of an empty list has no sample:
\* fit() raises ValueError
DBSCAN_raises(X) == Len(X) = 0

DBSCAN_fit(X) == LabelFrom(X, [q \in 1..Len(X) |-> NOISE], 1, 0)

-----------------------------------------------------------------------------
(* cluster_columns_dbscan and find_nearest_cluster                           *)

\* sum of the center_x of a list of items; np.mean is SumX / Len
SumX(items) == Sum([k \in 1..Len(items) |-> items[k].center_x])

\* the dict `columns` is a list of [label, items] in insertion order
Labels(cl) == {cl[k].label : k \in 1..Len(cl)}

\* the scan of find_nearest_cluster from dict position k on; best is the
\* nearest_label so far and <<dn, dd>> the min_distance dn/dd so far (dd = 0
\* stands for float('inf'))
RECURSIVE NearestFrom(_, _, _, _, _, _)
NearestFrom(item, cl, k, best, dn, dd) ==
    IF k > Len(cl) THEN best
    ELSE LET n == Len(cl[k].items)
             \* distance = abs(item.center_x - mean) = num / n
             num == Abs(item.center_x * n - SumX(cl[k].items))
         IN  IF dd = 0 \/ num * dd < dn * n
             THEN NearestFrom(item, cl, k + 1, cl[k].label, num, n)
             ELSE NearestFrom(item, cl, k + 1, best, dn, dd)

\* mutant of find_nearest_cluster: `<=` instead of `<` in the scan, so that
\* of several nearest clusters the one created last wins
find_nearest_cluster_last(item, cl) ==
    IF cl = <<>> THEN 0
    ELSE LET num(k) == Abs(item.center_x * Len(cl[k].items) - SumX(cl[k].items))
             closer(k, j) ==
                 num(k) * Len(cl[j].items) < num(j) * Len(cl[k].items)
         IN  cl[CHOOSE k \in 1..Len(cl) :
                    /\ \A j \in 1..Len(cl) : ~closer(j, k)
                    /\ \A j \in (k + 1)..Len(cl) : closer(k, j)].label

find_nearest_cluster(item, cl) ==
    IF cl = <<>> THEN 0 ELSE NearestFrom(item, cl, 1, 0, 0, 0)

\* mutant of AssignLabel: columns[label] = [item] instead of an append
AssignLabelOverwrite(cl, label, item) ==
    LET l == IF label = NOISE THEN find_nearest_cluster(item, cl) ELSE label
    IN  IF l \in Labels(cl)
        THEN [k \in 1..Len(cl) |->
                 IF cl[k].label = l THEN [cl[k] EXCEPT !.items = <<item>>]
                 ELSE cl[k]]
        ELSE Append(cl, [label |-> l, items |-> <<item>>])

\* one iteration of the grouping loop: the label (re-resolved when it is -1)
\* selects the dict entry, created at the end of the dict when new
AssignLabel(cl, label, item) ==
    LET l == IF label = NOISE THEN find_nearest_cluster(item, cl) ELSE label
    IN  IF l \in Labels(cl)
        THEN [k \in 1..Len(cl) |->
                 IF cl[k].label = l
                 THEN [cl[k] EXCEPT !.items = Append(@, item)]
                 ELSE cl[k]]
        ELSE Append(cl, [label |-> l, items |-> <<item>>])

\* list(columns.values())
Values(cl) == [k \in 1..Len(cl) |-> cl[k].items]

-----------------------------------------------------------------------------
(* The two sorts of sort_text_with_bbox                                      *)

\* key(a) < key(b) for key = -np.mean(center_x): mean(a) > mean(b).  An empty
\* column has the key nan, which compares false both ways.
MeanXGreater(a, b) ==
    /\ Len(a) > 0
    /\ Len(b) > 0
    /\ SumX(a) * Len(b) > SumX(b) * Len(a)

\* mutant of SortColumns: the key without the minus sign (left to right)
SortColumnsAscending(cols) ==
    StableSort(cols, {pr \in Pairs(cols) :
                         MeanXGreater(cols[pr[2]], cols[pr[1]])})

\* mutant of SortColumns: the columns stay in the order the clusterer made
\* them
SortColumnsUnsorted(cols) == cols

\* columns.sort(key=lambda col: -np.mean([item['center_x'] for item in col]))
SortColumns(cols) ==
    StableSort(cols, {pr \in Pairs(cols) :
                         MeanXGreater(cols[pr[1]], cols[pr[2]])})

CenterYLess(a, b) == a.center_y < b.center_y

\* mutant of SortColumn: reverse=True (bottom to top)
SortColumnDescending(column) ==
    StableSort(column, {pr \in Pairs(column) :
                           CenterYLess(column[pr[2]], column[pr[1]])})

\* mutant of SortColumn: a sort that is not stable (equal keys come out in
\* reverse order)
SortColumnUnstable(column) ==
    StableSort(column, {pr \in Pairs(column) :
                           \/ CenterYLess(column[pr[1]], column[pr[2]])
                           \/ /\ column[pr[1]].center_y = column[pr[2]].center_y
                              /\ pr[1] > pr[2]})

\* column.sort(key=lambda item: item['center_y'])
SortColumn(column) ==
    StableSort(column, {pr \in Pairs(column) :
                           CenterYLess(column[pr[1]], column[pr[2]])})

\* [item['text'] for item in column]
Texts(column) == [k \in 1..Len(column) |-> column[k].text]

\* a rec_scores entry that is None (JSON null) is written as a negative number
IsNoneScore(s) == s < 0

\* scores = [float(s) for s in rec_scores if s is not None];
\* avg_confidence = sum(scores) / len(scores) if scores, else it stays None.
\* The average is the pair <<sum, len>>.
AvgConfidence(rec_scores) ==
    LET scores == SelectSeq(rec_scores, LAMBDA s : ~IsNoneScore(s))
    IN  IF Len(scores) > 0 THEN <<Sum(scores), Len(scores)>> ELSE None

-----------------------------------------------------------------------------
(* Confidence aggregation.  An average is the pair <<sum, len>>.             *)

\* the float 0.0
Zero == <<0, 1>>

\* analyze_with_paddle: float(avg_confidence) if avg_confidence is not None
\* else 0.0
PaddleConfidenceScore(avg) == IF avg # None THEN avg ELSE Zero

\* [w['confidence'] for w in words]
Confidences(words) == [k \in 1..Len(words) |-> words[k].confidence]

\* calculate_confidence_stats: the "avg" of the returned dict
StatsAvg(words) ==
    IF words = <<>> THEN Zero
    ELSE LET confidences ==
                 SelectSeq(Confidences(words), LAMBDA c : ~IsNoneScore(c))
         IN  IF confidences = <<>> THEN Zero
             ELSE <<Sum(confidences), Len(confidences)>>

\* mutant of AzureConfidenceScore: the division without its guard
AzureConfidenceScoreUnguarded(words) ==
    <<Sum(Confidences(words)), Len(words)>>

\* analyze_with_azure: total_confidence / word_count if word_count > 0
\* else 0.0
AzureConfidenceScore(words) ==
    IF Len(words) > 0 THEN <<Sum(Confidences(words)), Len(words)>> ELSE Zero

\* [w['content'] for w in words]
Contents(words) == [k \in 1..Len(words) |-> words[k].content]

-----------------------------------------------------------------------------
(* Normalisation of a backend word in _process_azure_result and              *)
(* _process_paddle_result.  center_x and center_y are held doubled.          *)

\* [polygon[i] for i in range(0, len(polygon), 2)]
XCoords(polygon) ==
    [k \in 1..((Len(polygon) + 1) \div 2) |-> polygon[2 * k - 1]]
\* [polygon[i] for i in range(1, len(polygon), 2)]
YCoords(polygon) == [k \in 1..(Len(polygon) \div 2) |-> polygon[2 * k]]

Min(s) == CHOOSE v \in Range(s) : \A w \in Range(s) : v <= w
Max(s) == CHOOSE v \in Range(s) : \A w \in Range(s) : v >= w

\* the word_data entry built from min / max of the polygon's coordinates
WordData(word) ==
    LET min_x == Min(XCoords(word.polygon))
        max_x == Max(XCoords(word.polygon))
        min_y == Min(YCoords(word.polygon))
        max_y == Max(YCoords(word.polygon))
    IN  [text |-> word.content, confidence |-> word.confidence,
         polygon |-> word.polygon,
         bbox |-> <<min_x, min_y, max_x - min_x, max_y - min_y>>,
         center_x |-> min_x + max_x, center_y |-> min_y + max_y]

\* the entry of a word without a polygon of at least 8 numbers:
\* bbox = [0, 0, 100, 20], center_x = 50, center_y = 10
DefaultWordData(word) ==
    [text |-> word.content, confidence |-> word.confidence,
     polygon |-> word.polygon, bbox |-> <<0, 0, 100, 20>>,
     center_x |-> 2 * 50, center_y |-> 2 * 10]

\* _process_azure_result: the entry appended to words_data for one word
NormalizeAzure(word) ==
    IF word.polygon # <<>> /\ Len(word.polygon) >= 8
    THEN WordData(word) ELSE DefaultWordData(word)

\* _process_paddle_result: the entry appended to words_data for one item; the
\* item's bbox_points are the points of word.polygon
NormalizePaddle(word) == WordData(word)

-----------------------------------------------------------------------------
(* sort_text_with_bbox as a function of its input, for boxes that unpack     *)

\* the grouping loop of cluster_columns_dbscan from label k on
RECURSIVE GroupFrom(_, _, _, _)
GroupFrom(tb, lab, k, cl) ==
    IF k > Len(lab) THEN cl
    ELSE GroupFrom(tb, lab, k + 1, AssignLabel(cl, lab[k], tb[k]))

\* cluster_columns_dbscan of the services variant: [text_boxes] when fit raises
cluster_columns_dbscan(tb) ==
    LET X == [k \in 1..Len(tb) |-> tb[k].center_x]
    IN  IF DBSCAN_raises(X) THEN <<tb>>
        ELSE Values(GroupFrom(tb, DBSCAN_fit(X), 1, <<>>))

\* the columns as sort_text_with_bbox leaves them: sorted right to left, each
\* sorted top to bottom
OrderedColumns(boxes, texts) ==
    LET text_boxes_ == BuildTextBoxes(boxes, texts)
        cols == SortColumns(cluster_columns_dbscan(text_boxes_))
    IN  [c \in 1..Len(cols) |-> SortColumn(cols[c])]

\* sorted_text: the texts of the columns, one column after the other
RECURSIVE FlattenTexts(_, _)
FlattenTexts(cols, c) ==
    IF c > Len(cols) THEN <<>>
    ELSE Texts(cols[c]) \o FlattenTexts(cols, c + 1)

-----------------------------------------------------------------------------
(* Sequential threshold path: group_words_by_vertical_lines                  *)

\* w['polygon'][0]: the x of the polygon's first point (Python index 0)
PolygonX(w) == w.polygon[1]
\* w['polygon'][1]: the y of the polygon's first point (Python index 1)
PolygonY(w) == w.polygon[2]

PolygonXLess(a, b) == PolygonX(a) < PolygonX(b)
PolygonYLess(a, b) == PolygonY(a) < PolygonY(b)

\* sorted(words_data, key=lambda w: w['polygon'][0])
SortWordsByX(words) ==
    StableSort(words, {pr \in Pairs(words) :
                          PolygonXLess(words[pr[1]], words[pr[2]])})

\* current_line.sort(key=lambda w: w['polygon'][1])
SortLineByY(line) ==
    StableSort(line, {pr \in Pairs(line) :
                         PolygonYLess(line[pr[1]], line[pr[2]])})

SumPolygonX(line) == Sum([k \in 1..Len(line) |-> PolygonX(line[k])])

\* mutant of CloseLine: vertical_lines = [current_line] instead of an append
CloseLineReplace(lines, line) == <<SortLineByY(line)>>

\* current_line.sort(key=...); vertical_lines.append(current_line)
CloseLine(lines, line) == Append(lines, SortLineByY(line))

\* mutant of FirstLine: the first column starts empty
FirstLineEmpty(words) == <<>>

\* current_line = [sorted_words[0]]
FirstLine(words) == <<words[1]>>

\* mutant of JoinsLine: `<` instead of `<=`
JoinsLineStrict(word, line, th) ==
    Abs(PolygonX(word) * Len(line) - SumPolygonX(line)) < th * Len(line)

\* abs(current_word_x - current_line_avg_x) <= threshold, with
\* current_line_avg_x = sum(polygon[0]) / len(current_line)
JoinsLine(word, line, th) ==
    Abs(PolygonX(word) * Len(line) - SumPolygonX(line)) <= th * Len(line)

-----------------------------------------------------------------------------
(* Inputs                                                                    *)

\* one PaddleOCR detection: rec_boxes entry [x1, y1, x2, y2], rec_texts entry,
\* rec_scores entry (in hundredths)
Det(x1, y1, x2, y2, text, score) ==
    [box |-> <<x1, y1, x2, y2>>, text |-> text, score |-> score]

\* a box of 20 x 20 pixels centred at (cx, cy)
DetAt(cx, cy, text, score) == Det(cx - 10, cy - 10, cx + 10, cy + 10, text, score)

\* The free-form detections.  Centres x = 10, 130, 250 form a chain of gaps of
\* exactly eps; 130.5 is half a pixel further; 371 is eps + 1 from 250 and
\* more than eps from 500.
Detections ==
    { DetAt(500, 10, "tian", 90),
      DetAt(505, 50, "xia", 80),
      DetAt(10, 30, "tai", 70),
      DetAt(130, 10, "ping", 90),
      DetAt(250, 30, "", 60),
      DetAt(371, 50, "tian", -1),
      Det(120, 20, 141, 40, "xia", 80) }

FreeInputs == UNION {[1..n -> Detections] : n \in 0..MaxLen}

\* Scenario C: five detections whose centres (40 or 160) are mutually within
\* eps, and one outlier at 9999 at any position of the list
ScenarioCInputs ==
    { [k \in 1..6 |->
          IF k = o THEN DetAt(9999, 10 * k, "out", 50)
          ELSE DetAt(IF k \in far THEN 160 ELSE 40, 10 * k, "in", 90)] :
      o \in 1..6, far \in SUBSET (1..6) }

\* Five well separated groups centred at 0, 200, 400, 600, 800, in any order,
\* alone or with a sixth detection 50 pixels right of one of the centres
GroupCentres == {0, 200, 400, 600, 800}

FiveGroupInputs ==
    LET perms == {f \in [1..5 -> GroupCentres] : Range(f) = GroupCentres}
        five(f) == [k \in 1..5 |-> DetAt(f[k], 20 * k, "g", 90)]
    IN  {five(f) : f \in perms}
        \cup {Append(five(f), DetAt(c + 50, 5, "h", 80)) :
                 f \in perms, c \in GroupCentres}

\* a detection whose rec_boxes entry has three numbers instead of four
MalformedDet == [box |-> <<240, 20, 260>>, text |-> "po", score |-> 50]

\* up to MaxLen - 1 detections, exactly one of them malformed, at any position
MalformedInputs ==
    { [k \in 1..n |-> IF k = m THEN MalformedDet
                      ELSE rest[IF k < m THEN k ELSE k - 1]] :
      <<n, m, rest>> \in
          {t \in (1..(MaxLen - 1)) \X (1..(MaxLen - 1)) \X FreeInputs :
              t[2] <= t[1] /\ Len(t[3]) = t[1] - 1} }

\* Degenerate ties: two detections of different size and text with the same
\* centre (500, 10), and a third one below them in the same column
TieDetections ==
    { DetAt(500, 10, "tian", 90),
      Det(495, 5, 505, 15, "di", 80),
      DetAt(505, 50, "xia", 80) }

TieInputs == UNION {[1..n -> TieDetections] : n \in 1..MaxLen}

DensityInputs ==
    FreeInputs \cup ScenarioCInputs \cup FiveGroupInputs \cup MalformedInputs
        \cup TieInputs

OcrResult(dets) ==
    [rec_boxes  |-> [k \in 1..Len(dets) |-> dets[k].box],
     rec_texts  |-> [k \in 1..Len(dets) |-> dets[k].text],
     rec_scores |-> [k \in 1..Len(dets) |-> dets[k].score]]

\* one Azure word: content and the flat polygon [x1, y1, ..., x4, y4] of an
\* upright rectangle with top-left corner (x, y), width w and height h
Word(content, x, y, w, h) ==
    [content |-> content,
     polygon |-> <<x, y, x + w, y, x + w, y + h, x, y + h>>]

\* Words.  First-point x = 100, 110, 150 fall in one column at threshold 50
\* (150 is exactly 50 from 100, 45 from the mean of 100 and 110); 201 is 51
\* from 150.  The first word is tall: its first point is the highest of all
\* but its centre is lower than the second word's.  The last word is wide: its
\* first point is at x = 150 and its centre at x = 180.
Words ==
    { Word("a", 100, 0, 20, 100),
      Word("b", 110, 10, 20, 10),
      Word("c", 150, 5, 20, 10),
      Word("d", 201, 10, 20, 10),
      Word("e", 300, 0, 20, 10),
      Word("f", 150, 20, 60, 10) }

WordInputs == UNION {[1..n -> Words] : n \in 0..MaxLen}

\* a word of an Azure result with its confidence (in hundredths; None is
\* written as a negative number)
ConfWord(content, confidence) ==
    [content |-> content, confidence |-> confidence,
     polygon |-> <<100, 0, 120, 0, 120, 10, 100, 10>>]

ConfWords == {ConfWord("a", 90), ConfWord("b", 80), ConfWord("c", -1)}

ConfWordInputs == UNION {[1..n -> ConfWords] : n \in 0..MaxLen}

\* a word of a backend result: content, confidence and flat polygon
ResultWord(content, confidence, polygon) ==
    [content |-> content, confidence |-> confidence, polygon |-> polygon]

\* Words of a backend result: an upright rectangle, a slanted quadrilateral
\* (x = 0, 10, 10, 4), a triangle (six numbers) and a word whose confidence
\* is None
ResultWords ==
    { ResultWord("a", 90, <<100, 0, 120, 0, 120, 10, 100, 10>>),
      ResultWord("b", 80, <<0, 0, 10, 0, 10, 10, 4, 10>>),
      ResultWord("c", 70, <<0, 0, 10, 0, 5, 10>>),
      ResultWord("d", -1, <<200, 0, 220, 0, 220, 10, 200, 10>>) }

ResultWordInputs == UNION {[1..n -> ResultWords] : n \in 0..MaxLen}

Thresholds == {-1, 0, DEFAULT_THRESHOLD}

-----------------------------------------------------------------------------
(* Asynchronous analyses (Backend/api/ocr.py): data                          *)

\* the analyses the requests create (analysis_id = str(uuid.uuid4()))
AnalysisIds == {1, 2}

Engines == {"paddle", "azure"}

\* background_ocr_analysis_thread: the progress values it reports, in order;
\* analyze_document runs after 80, the result is saved after 90
PaddleProgress == <<5, 15, 25, 40, 60, 75, 80, 90>>
AzureProgress == <<5, 15, 30, 60, 80, 90>>
Progress(engine) ==
    IF engine = "paddle" THEN PaddleProgress ELSE AzureProgress

\* the entry set_analysis_status stores under an analysis_id
StatusEntry(progress, status) == [progress |-> progress, status |-> status]
\* ANALYSIS_STATUS.get(analysis_id, {}) of an id that has no entry
NoEntry == StatusEntry(0, "")

\* a row of OCRAnalysis: the columns the status and result handlers read
OCRAnalysis(status, visualization_path) ==
    [status |-> status, visualization_path |-> visualization_path]
\* db.query(OCRAnalysis).filter(...).first() of an id that has no row
NoAnalysis == OCRAnalysis("", None)

\* OCRResult: status and visualization_path
OCRResult(status, visualization_path) ==
    [status |-> status, visualization_path |-> visualization_path]
NoResult == OCRResult("", None)

\* the files of OUTPUT_DIR that match "*ocr_res*.jpg": the image save_to_img
\* writes for an analysis and the path viz_path the analysis moves it to
GeneratedPath(analysis_id) == <<"generated_ocr_res_img", analysis_id>>
VizPath(analysis_id) == <<"name_ocr_res_img", analysis_id>>
Paths ==
    {GeneratedPath(a) : a \in AnalysisIds} \cup {VizPath(a) : a \in AnalysisIds}

\* a file: the analysis whose input the image shows, and its ctime
File(image, ctime) == [image |-> image, ctime |-> ctime]
NoFile == File(0, 0)

\* glob.glob(os.path.join(OUTPUT_DIR, "*ocr_res*.jpg"))
Glob(dir) == {p \in Paths : dir[p] # NoFile}

\* max(generated_files, key=os.path.getctime)
LatestFile(dir, generated_files) ==
    CHOOSE p \in generated_files :
        \A q \in generated_files : dir[q].ctime <= dir[p].ctime

\* shutil.move(latest_file, viz_path): the image is renamed, which sets the
\* ctime of the file to the time of the call
Move(dir, latest_file, viz_path, now) ==
    [dir EXCEPT ![viz_path] = File(dir[latest_file].image, now),
                ![latest_file] = NoFile]

\* a thread that was not started
IdleThread ==
    [pc |-> "idle", engine |-> "", visualization |-> FALSE, step |-> 0,
     analysis_result |-> NoResult, latest_file |-> None,
     visualization_path |-> None]

\* background_ocr_analysis_thread, DB update: a commit that loses the status
FinalStatusLost(analysis_result, analysis) == analysis.status

\* background_ocr_analysis_thread, DB update:
\* analysis.status = analysis_result.status
FinalStatus(analysis_result, analysis) == analysis_result.status

\* get_ocr_status: the status of the response
StatusResponse(status_data, analysis) ==
    IF analysis = NoAnalysis THEN "404"
    ELSE IF status_data # NoEntry THEN status_data.status
    ELSE analysis.status

\* get_ocr_result: the outcome of the call
ResultResponse(analysis) ==
    IF analysis = NoAnalysis THEN "404"
    ELSE IF analysis.status # "completed" THEN "400"
    ELSE "200"

\* no request is being handled
NoRequest == [analysis_id |-> 0, status_data |-> NoEntry]

-----------------------------------------------------------------------------
(* State machine                                                             *)

\* no analysis was requested: no entry, no row, no thread, no file
ServerIdle ==
    /\ ANALYSIS_STATUS = [a \in AnalysisIds |-> NoEntry]
    /\ db = [a \in AnalysisIds |-> NoAnalysis]
    /\ thread = [a \in AnalysisIds |-> IdleThread]
    /\ OUTPUT_DIR = [p \in Paths |-> NoFile]
    /\ clock = 1
    /\ request = NoRequest
    /\ status_response = [a \in AnalysisIds |-> ""]
    /\ result_response = [a \in AnalysisIds |-> ""]

Blank ==
    /\ i = 1
    /\ text_boxes = <<>>
    /\ labels = <<>>
    /\ clusters = <<>>
    /\ columns = <<>>
    /\ sorted_text = <<>>
    /\ full_text = ""
    /\ avg_confidence = None
    /\ sorted_words = <<>>
    /\ current_line = <<>>
    /\ vertical_lines = <<>>
    /\ outcome = "running"
    /\ confidence_score = None
    /\ word_count = 0
    /\ ServerIdle

\* run_PaddleOCR has read ocr_data and is about to call sort_text_with_bbox
InitPaddleOCR ==
    /\ variant = "PaddleOCR"
    /\ \E dets \in DensityInputs : ocr_result = OcrResult(dets)
    /\ words_data = <<>>
    /\ threshold = DEFAULT_THRESHOLD
    /\ pc = "sort_text"
    /\ Blank

\* run_paddle_ocr_analysis has read ocr_data from the JSON file
InitServices ==
    /\ variant = "services"
    /\ \E dets \in DensityInputs : ocr_result = OcrResult(dets)
    /\ words_data = <<>>
    /\ threshold = DEFAULT_THRESHOLD
    /\ pc = "confidence"
    /\ Blank

\* group_words_by_vertical_lines is called with words_data and threshold
InitAzureOCR ==
    /\ variant = "AzureOCR"
    /\ ocr_result = OcrResult(<<>>)
    /\ words_data \in WordInputs
    /\ threshold \in Thresholds
    /\ pc = "group_words"
    /\ Blank

\* calculate_confidence_stats is called with words_data
InitStats ==
    /\ variant = "stats"
    /\ ocr_result = OcrResult(<<>>)
    /\ words_data \in ConfWordInputs
    /\ threshold = DEFAULT_THRESHOLD
    /\ pc = "stats"
    /\ Blank

\* analyze_with_azure has received ocr_data; words_data is the words of its
\* pages, page after page
InitAnalyzeWithAzure ==
    /\ variant = "analyze_with_azure"
    /\ ocr_result = OcrResult(<<>>)
    /\ words_data \in ConfWordInputs
    /\ threshold = DEFAULT_THRESHOLD
    /\ pc = "analyze"
    /\ Blank

\* _process_azure_result is called with a result whose pages hold words_data
InitProcessAzureResult ==
    /\ variant = "process_azure_result"
    /\ ocr_result = OcrResult(<<>>)
    /\ words_data \in ResultWordInputs
    /\ threshold = DEFAULT_THRESHOLD
    /\ pc = "process"
    /\ Blank

\* _process_paddle_result is called with a result whose items are words_data
InitProcessPaddleResult ==
    /\ variant = "process_paddle_result"
    /\ ocr_result = OcrResult(<<>>)
    /\ words_data \in ResultWordInputs
    /\ threshold = DEFAULT_THRESHOLD
    /\ pc = "process"
    /\ Blank

\* The detections of the grouping-loop inputs: centres x = 10, 130, 250
NoiseDetections ==
    { DetAt(10, 30, "tai", 70),
      DetAt(130, 10, "ping", 90),
      DetAt(250, 30, "", 60) }

\* the labels a clustering can hand to the grouping loop
LabelValues == {NOISE, 0, 1}

\* The grouping loop of cluster_columns_dbscan is about to start on text_boxes
\* and a label vector that may hold -1, as DBSCAN returns it when
\* min_samples > 1.  (With the code's min_samples = 1 no label is -1.)
InitGroupingLoop ==
    /\ variant = "grouping_loop"
    /\ \E n \in 0..MaxLen :
          /\ \E dets \in [1..n -> NoiseDetections] :
                /\ ocr_result = OcrResult(dets)
                /\ text_boxes =
                      BuildTextBoxes(ocr_result.rec_boxes, ocr_result.rec_texts)
          /\ labels \in [1..n -> LabelValues]
    /\ words_data = <<>>
    /\ threshold = DEFAULT_THRESHOLD
    /\ pc = "group"
    /\ i = 1
    /\ clusters = <<>>
    /\ columns = <<>>
    /\ sorted_text = <<>>
    /\ full_text = ""
    /\ avg_confidence = None
    /\ sorted_words = <<>>
    /\ current_line = <<>>
    /\ vertical_lines = <<>>
    /\ outcome = "running"
    /\ confidence_score = None
    /\ word_count = 0
    /\ ServerIdle

Init ==
    \/ InitPaddleOCR
    \/ InitServices
    \/ InitAzureOCR
    \/ InitStats
    \/ InitAnalyzeWithAzure
    \/ InitProcessAzureResult
    \/ InitProcessPaddleResult

\* run_paddle_ocr_analysis: the confidence of the page, computed before the
\* texts are ordered
ComputeConfidence ==
    /\ pc = "confidence"
    /\ avg_confidence' = AvgConfidence(ocr_result.rec_scores)
    /\ pc' = "sort_text"
    /\ UNCHANGED <<confidence_score, word_count>>
    /\ UNCHANGED server
    /\ UNCHANGED <<variant, ocr_result, words_data, threshold, i, text_boxes,
                   labels, clusters, columns, sorted_text, full_text,
                   sorted_words, current_line, vertical_lines, outcome>>

\* sort_text_with_bbox: text_boxes is built from rec_boxes and rec_texts.
\* When a box does not unpack, the services variant catches the ValueError
\* and returns the texts as they came; the PaddleOCR variant has no handler.
BuildBoxes ==
    /\ pc = "sort_text"
    /\ IF Unpacks(ocr_result.rec_boxes)
       THEN /\ text_boxes' =
                   BuildTextBoxes(ocr_result.rec_boxes, ocr_result.rec_texts)
            /\ pc' = "fit"
            /\ UNCHANGED <<i, sorted_text, outcome>>
       ELSE IF variant = "services"
            THEN /\ sorted_text' = FallbackTexts(ocr_result.rec_texts)
                 /\ i' = 1
                 /\ pc' = "lines"
                 /\ UNCHANGED <<text_boxes, outcome>>
            ELSE /\ outcome' = "raised"
                 /\ pc' = "done"
                 /\ UNCHANGED <<text_boxes, i, sorted_text>>
    /\ UNCHANGED <<confidence_score, word_count>>
    /\ UNCHANGED server
    /\ UNCHANGED <<variant, ocr_result, words_data, threshold, labels,
                   clusters, columns, full_text, avg_confidence,
                   sorted_words, current_line, vertical_lines>>

\* cluster_columns_dbscan: DBSCAN(...).fit(X).  When fit raises, the services
\* variant catches it and returns [text_boxes]; the PaddleOCR variant has no
\* handler and the exception leaves sort_text_with_bbox and run_PaddleOCR.
Fit ==
    /\ pc = "fit"
    /\ LET X == [k \in 1..Len(text_boxes) |-> text_boxes[k].center_x]
       IN  IF DBSCAN_raises(X)
           THEN IF variant = "services"
                THEN /\ columns' = <<text_boxes>>
                     /\ pc' = "sort_columns"
                     /\ UNCHANGED <<labels, outcome>>
                ELSE /\ outcome' = "raised"
                     /\ pc' = "done"
                     /\ UNCHANGED <<labels, columns>>
           ELSE /\ labels' = DBSCAN_fit(X)
                /\ pc' = "group"
                /\ UNCHANGED <<columns, outcome>>
    /\ i' = 1
    /\ clusters' = <<>>
    /\ UNCHANGED <<confidence_score, word_count>>
    /\ UNCHANGED server
    /\ UNCHANGED <<variant, ocr_result, words_data, threshold, text_boxes,
                   sorted_text, full_text, avg_confidence, sorted_words,
                   current_line, vertical_lines>>

\* cluster_columns_dbscan: one iteration of `for i, label in enumerate(labels)`
GroupStep ==
    /\ pc = "group"
    /\ i <= Len(labels)
    /\ clusters' = AssignLabel(clusters, labels[i], text_boxes[i])
    /\ i' = i + 1
    /\ UNCHANGED <<confidence_score, word_count>>
    /\ UNCHANGED server
    /\ UNCHANGED <<variant, ocr_result, words_data, threshold, pc, text_boxes,
                   labels, columns, sorted_text, full_text, avg_confidence,
                   sorted_words, current_line, vertical_lines, outcome>>

\* cluster_columns_dbscan: return list(columns.values())
GroupReturn ==
    /\ pc = "group"
    /\ i > Len(labels)
    /\ columns' = Values(clusters)
    /\ pc' = "sort_columns"
    /\ UNCHANGED <<confidence_score, word_count>>
    /\ UNCHANGED server
    /\ UNCHANGED <<variant, ocr_result, words_data, threshold, i, text_boxes,
                   labels, clusters, sorted_text, full_text, avg_confidence,
                   sorted_words, current_line, vertical_lines, outcome>>

\* sort_text_with_bbox: columns.sort(...), right to left
OrderColumns ==
    /\ pc = "sort_columns"
    /\ columns' = SortColumns(columns)
    /\ i' = 1
    /\ pc' = "lines"
    /\ UNCHANGED <<confidence_score, word_count>>
    /\ UNCHANGED server
    /\ UNCHANGED <<variant, ocr_result, words_data, threshold, text_boxes,
                   labels, clusters, sorted_text, full_text, avg_confidence,
                   sorted_words, current_line, vertical_lines, outcome>>

\* sort_text_with_bbox: one iteration of `for col_idx, column in
\* enumerate(columns)`: the column is sorted in place and its texts appended
OrderLine ==
    /\ pc = "lines"
    /\ i <= Len(columns)
    /\ columns' = [columns EXCEPT ![i] = SortColumn(@)]
    /\ sorted_text' = sorted_text \o Texts(columns'[i])
    /\ i' = i + 1
    /\ UNCHANGED <<confidence_score, word_count>>
    /\ UNCHANGED server
    /\ UNCHANGED <<variant, ocr_result, words_data, threshold, pc, text_boxes,
                   labels, clusters, full_text, avg_confidence, sorted_words,
                   current_line, vertical_lines, outcome>>

\* sort_text_with_bbox returns sorted_text; the caller joins it:
\* full_text = "".join(sorted_texts).  In the services variant
\* analyze_with_paddle then turns avg_confidence into confidence_score.
Assemble ==
    /\ pc = "lines"
    /\ i > Len(columns)
    /\ full_text' = Join(sorted_text)
    /\ outcome' = "returned"
    /\ pc' = "done"
    /\ confidence_score' = IF variant = "services"
                           THEN PaddleConfidenceScore(avg_confidence)
                           ELSE confidence_score
    /\ UNCHANGED word_count
    /\ UNCHANGED server
    /\ UNCHANGED <<variant, ocr_result, words_data, threshold, i, text_boxes,
                   labels, clusters, columns, sorted_text, avg_confidence,
                   sorted_words, current_line, vertical_lines>>

\* group_words_by_vertical_lines: the empty-input return, or the sort by x and
\* the first current_line
GroupWordsStart ==
    /\ pc = "group_words"
    /\ IF words_data = <<>>
       THEN /\ outcome' = "returned"
            /\ pc' = "done"
            /\ UNCHANGED <<sorted_words, current_line, i>>
       ELSE /\ sorted_words' = SortWordsByX(words_data)
            /\ current_line' = FirstLine(sorted_words')
            /\ i' = 2
            /\ pc' = "words_loop"
            /\ UNCHANGED outcome
    /\ UNCHANGED <<confidence_score, word_count>>
    /\ UNCHANGED server
    /\ UNCHANGED <<variant, ocr_result, words_data, threshold, text_boxes,
                   labels, clusters, columns, sorted_text, full_text,
                   avg_confidence, vertical_lines>>

\* group_words_by_vertical_lines: one iteration of `for word in
\* sorted_words[1:]`
GroupWord ==
    /\ pc = "words_loop"
    /\ i <= Len(sorted_words)
    /\ IF JoinsLine(sorted_words[i], current_line, threshold)
       THEN /\ current_line' = Append(current_line, sorted_words[i])
            /\ UNCHANGED vertical_lines
       ELSE /\ vertical_lines' = CloseLine(vertical_lines, current_line)
            /\ current_line' = <<sorted_words[i]>>
    /\ i' = i + 1
    /\ UNCHANGED <<confidence_score, word_count>>
    /\ UNCHANGED server
    /\ UNCHANGED <<variant, ocr_result, words_data, threshold, pc, text_boxes,
                   labels, clusters, columns, sorted_text, full_text,
                   avg_confidence, sorted_words, outcome>>

\* group_words_by_vertical_lines: the last current_line is sorted and
\* appended, and vertical_lines returned
GroupWordsReturn ==
    /\ pc = "words_loop"
    /\ i > Len(sorted_words)
    /\ IF current_line # <<>>
       THEN /\ current_line' = SortLineByY(current_line)
            /\ vertical_lines' = CloseLine(vertical_lines, current_line)
       ELSE UNCHANGED <<current_line, vertical_lines>>
    /\ outcome' = "returned"
    /\ pc' = "done"
    /\ UNCHANGED <<confidence_score, word_count>>
    /\ UNCHANGED server
    /\ UNCHANGED <<variant, ocr_result, words_data, threshold, i, text_boxes,
                   labels, clusters, columns, sorted_text, full_text,
                   avg_confidence, sorted_words>>

\* calculate_confidence_stats
ConfidenceStats ==
    /\ pc = "stats"
    /\ confidence_score' = StatsAvg(words_data)
    /\ UNCHANGED word_count
    /\ outcome' = "returned"
    /\ pc' = "done"
    /\ UNCHANGED server
    /\ UNCHANGED <<variant, ocr_result, words_data, threshold, i, text_boxes,
                   labels, clusters, columns, sorted_text, full_text,
                   avg_confidence, sorted_words, current_line, vertical_lines>>

\* analyze_with_azure: the loop over the words and the OCRResult.  Adding a
\* None confidence raises TypeError, which the handler turns into a failed
\* OCRResult.
AnalyzeWithAzure ==
    /\ pc = "analyze"
    /\ IF \E k \in 1..Len(words_data) : IsNoneScore(words_data[k].confidence)
       THEN /\ outcome' = "failed"
            /\ UNCHANGED <<full_text, confidence_score, word_count>>
       ELSE /\ full_text' = Join(Contents(words_data))
            /\ confidence_score' = AzureConfidenceScore(words_data)
            /\ word_count' = Len(words_data)
            /\ outcome' = "returned"
    /\ pc' = "done"
    /\ UNCHANGED server
    /\ UNCHANGED <<variant, ocr_result, words_data, threshold, i, text_boxes,
                   labels, clusters, columns, sorted_text, avg_confidence,
                   sorted_words, current_line, vertical_lines>>

\* the result of _process_azure_result / _process_paddle_result for a backend
\* result without words, and of their exception handler
EmptyResult ==
    /\ vertical_lines' = <<>>
    /\ full_text' = ""
    /\ word_count' = 0
    /\ confidence_score' = Zero
    /\ outcome' = "returned"
    /\ pc' = "done"

\* _process_azure_result / _process_paddle_result: words_data is built from
\* the backend result.  Without words the empty result is returned;
\* float(None) raises TypeError and the handler returns the empty result.
ExtractWords ==
    /\ pc = "process"
    /\ IF \/ words_data = <<>>
          \/ \E k \in 1..Len(words_data) : IsNoneScore(words_data[k].confidence)
       THEN /\ EmptyResult
            /\ UNCHANGED text_boxes
       ELSE /\ text_boxes' =
                   [k \in 1..Len(words_data) |->
                       IF variant = "process_azure_result"
                       THEN NormalizeAzure(words_data[k])
                       ELSE NormalizePaddle(words_data[k])]
            /\ pc' = "group_lines"
            /\ UNCHANGED <<vertical_lines, full_text, word_count,
                           confidence_score, outcome>>
    /\ UNCHANGED server
    /\ UNCHANGED <<variant, ocr_result, words_data, threshold, i, labels,
                   clusters, columns, sorted_text, avg_confidence,
                   sorted_words, current_line>>

\* _process_azure_result / _process_paddle_result:
\* processor.group_words_by_lines(words_data) raises AttributeError
\* (HistoricalDocumentTextProcessor has no such method), and the handler
\* returns the empty result.
GroupLines ==
    /\ pc = "group_lines"
    /\ EmptyResult
    /\ UNCHANGED server
    /\ UNCHANGED <<variant, ocr_result, words_data, threshold, i, text_boxes,
                   labels, clusters, columns, sorted_text, avg_confidence,
                   sorted_words, current_line>>

Next ==
    \/ ConfidenceStats
    \/ AnalyzeWithAzure
    \/ ExtractWords
    \/ GroupLines
    \/ ComputeConfidence
    \/ BuildBoxes
    \/ Fit
    \/ GroupStep
    \/ GroupReturn
    \/ OrderColumns
    \/ OrderLine
    \/ Assemble
    \/ GroupWordsStart
    \/ GroupWord
    \/ GroupWordsReturn

Spec == Init /\ [][Next]_vars

\* the grouping loop alone, on any label vector
NextGroupingLoop ==
    \/ GroupStep
    \/ GroupReturn

SpecGroupingLoop == InitGroupingLoop /\ [][NextGroupingLoop]_vars

\* the loop runs in one thread and nothing can suspend it for ever: a step
\* that can be taken is taken
FairSpecGroupingLoop == SpecGroupingLoop /\ WF_vars(NextGroupingLoop)

-----------------------------------------------------------------------------
(* Asynchronous analyses (Backend/api/ocr.py): state machine                 *)

\* The server has started (no Redis: the status store is the dict
\* ANALYSIS_STATUS) and no analysis was requested yet.
InitServer ==
    /\ variant = "server"
    /\ ocr_result = OcrResult(<<>>)
    /\ words_data = <<>>
    /\ threshold = DEFAULT_THRESHOLD
    /\ pc = "serving"
    /\ Blank

\* analyze_ocr_async: the row is inserted with status queued, the store entry
\* is written and the worker thread is started.  Ids are handed out in order.
AnalyzeOcrAsync(analysis_id, engine, visualization) ==
    /\ variant = "server"
    /\ db[analysis_id] = NoAnalysis
    /\ \A a \in AnalysisIds : a < analysis_id => db[a] # NoAnalysis
    /\ db' = [db EXCEPT ![analysis_id] = OCRAnalysis("queued", None)]
    /\ ANALYSIS_STATUS' =
          [ANALYSIS_STATUS EXCEPT ![analysis_id] = StatusEntry(0, "queued")]
    /\ thread' = [thread EXCEPT ![analysis_id] =
                     [IdleThread EXCEPT !.pc = "progress_status",
                                        !.engine = engine,
                                        !.visualization = visualization,
                                        !.step = 1]]
    /\ UNCHANGED <<OUTPUT_DIR, clock, request, status_response,
                   result_response>>
    /\ UNCHANGED pipeline

\* update_analysis_progress, first half: set_analysis_status(analysis_id,
\* {progress, step, status: "processing"})
SetProgressStatus(analysis_id) ==
    /\ thread[analysis_id].pc = "progress_status"
    /\ LET t == thread[analysis_id]
       IN  ANALYSIS_STATUS' =
              [ANALYSIS_STATUS EXCEPT ![analysis_id] =
                  StatusEntry(Progress(t.engine)[t.step], "processing")]
    /\ thread' = [thread EXCEPT ![analysis_id].pc = "progress_db"]
    /\ UNCHANGED <<db, OUTPUT_DIR, clock, request, status_response,
                   result_response>>
    /\ UNCHANGED pipeline

\* update_analysis_progress, second half: the row is set to processing and
\* committed; an exception of the database is printed and swallowed.  After
\* 80 analyze_document runs, after 90 the result is saved.
CommitProgress(analysis_id) ==
    /\ thread[analysis_id].pc = "progress_db"
    /\ \E committed \in BOOLEAN :
          db' = IF committed
                THEN [db EXCEPT ![analysis_id].status = "processing"]
                ELSE db
    /\ LET t == thread[analysis_id]
           progress == Progress(t.engine)[t.step]
       IN  thread' =
              IF progress = 80
              THEN [thread EXCEPT ![analysis_id].pc = "analyze"]
              ELSE IF progress = 90
              THEN [thread EXCEPT ![analysis_id].pc = "save_db"]
              ELSE [thread EXCEPT ![analysis_id].pc = "progress_status",
                                  ![analysis_id].step = t.step + 1]
    /\ UNCHANGED <<ANALYSIS_STATUS, OUTPUT_DIR, clock, request,
                   status_response, result_response>>
    /\ UNCHANGED pipeline

\* analyze_document.  analyze_with_azure returns completed or failed and no
\* visualization_path.  analyze_with_paddle returns failed when the engine or
\* the image cannot be used, else run_paddle_ocr_analysis goes on to save the
\* visualization image.  Nothing is raised to the caller.
AnalyzeDocument(analysis_id) ==
    /\ thread[analysis_id].pc = "analyze"
    /\ LET t == thread[analysis_id]
       IN  \/ /\ t.engine = "azure"
              /\ \E status \in {"completed", "failed"} :
                    thread' = [thread EXCEPT
                        ![analysis_id].analysis_result =
                            OCRResult(status, None),
                        ![analysis_id].pc = "progress_status",
                        ![analysis_id].step = t.step + 1]
           \/ /\ t.engine = "paddle"
              /\ thread' = [thread EXCEPT
                    ![analysis_id].analysis_result = OCRResult("failed", None),
                    ![analysis_id].pc = "progress_status",
                    ![analysis_id].step = t.step + 1]
           \/ /\ t.engine = "paddle"
              /\ thread' = [thread EXCEPT ![analysis_id].pc = "save_to_img"]
    /\ UNCHANGED <<ANALYSIS_STATUS, db, OUTPUT_DIR, clock, request,
                   status_response, result_response>>
    /\ UNCHANGED pipeline

\* run_paddle_ocr_analysis: res.save_to_img(OUTPUT_DIR) writes the image of
\* this analysis under the name PaddleOCR gives it
SaveToImg(analysis_id) ==
    /\ thread[analysis_id].pc = "save_to_img"
    /\ OUTPUT_DIR' = [OUTPUT_DIR EXCEPT ![GeneratedPath(analysis_id)] =
                         File(analysis_id, clock)]
    /\ clock' = clock + 1
    /\ thread' = [thread EXCEPT ![analysis_id].pc = "glob"]
    /\ UNCHANGED <<ANALYSIS_STATUS, db, request, status_response,
                   result_response>>
    /\ UNCHANGED pipeline

\* run_paddle_ocr_analysis: generated_files = glob.glob(pattern) and, if there
\* are any, latest_file = max(generated_files, key=os.path.getctime)
FindLatestFile(analysis_id) ==
    /\ thread[analysis_id].pc = "glob"
    /\ LET generated_files == Glob(OUTPUT_DIR)
       IN  thread' =
              IF generated_files = {}
              THEN [thread EXCEPT ![analysis_id].pc = "return"]
              ELSE [thread EXCEPT
                       ![analysis_id].latest_file =
                           LatestFile(OUTPUT_DIR, generated_files),
                       ![analysis_id].pc = "move"]
    /\ UNCHANGED <<ANALYSIS_STATUS, db, OUTPUT_DIR, clock, request,
                   status_response, result_response>>
    /\ UNCHANGED pipeline

\* run_paddle_ocr_analysis: latest_file is moved to viz_path and
\* visualization_path = viz_path.  When latest_file is gone, shutil.move
\* raises, the handler prints and visualization_path stays None.
MoveLatestFile(analysis_id) ==
    /\ thread[analysis_id].pc = "move"
    /\ LET latest_file == thread[analysis_id].latest_file
           viz_path == VizPath(analysis_id)
       IN  IF OUTPUT_DIR[latest_file] = NoFile
           THEN /\ thread' = [thread EXCEPT ![analysis_id].pc = "return"]
                /\ UNCHANGED <<OUTPUT_DIR, clock>>
           ELSE /\ OUTPUT_DIR' =
                      IF latest_file # viz_path
                      THEN Move(OUTPUT_DIR, latest_file, viz_path, clock)
                      ELSE OUTPUT_DIR
                /\ clock' = clock + 1
                /\ thread' = [thread EXCEPT
                       ![analysis_id].visualization_path = viz_path,
                       ![analysis_id].pc = "return"]
    /\ UNCHANGED <<ANALYSIS_STATUS, db, request, status_response,
                   result_response>>
    /\ UNCHANGED pipeline

\* run_paddle_ocr_analysis returns and analyze_with_paddle builds the result:
\* failed when the JSON result is missing, else completed with
\* visualization_path = vis_path if visualization else None
AnalyzeWithPaddleReturn(analysis_id) ==
    /\ thread[analysis_id].pc = "return"
    /\ LET t == thread[analysis_id]
       IN  \E status \in {"completed", "failed"} :
              thread' = [thread EXCEPT
                  ![analysis_id].analysis_result =
                      IF status = "completed" /\ t.visualization
                      THEN OCRResult(status, t.visualization_path)
                      ELSE OCRResult(status, None),
                  ![analysis_id].pc = "progress_status",
                  ![analysis_id].step = t.step + 1]
    /\ UNCHANGED <<ANALYSIS_STATUS, db, OUTPUT_DIR, clock, request,
                   status_response, result_response>>
    /\ UNCHANGED pipeline

\* background_ocr_analysis_thread, DB update: the result is written to the
\* row and committed.  An exception of the database leaves the row as it was
\* and leads to the handler.
SaveResult(analysis_id) ==
    /\ thread[analysis_id].pc = "save_db"
    /\ LET t == thread[analysis_id]
       IN  \E committed \in BOOLEAN :
              IF committed
              THEN /\ db' = [db EXCEPT ![analysis_id] =
                                OCRAnalysis(
                                    FinalStatus(t.analysis_result,
                                                db[analysis_id]),
                                    t.analysis_result.visualization_path)]
                   /\ thread' = [thread EXCEPT ![analysis_id].pc = "save_status"]
              ELSE /\ db' = db
                   /\ thread' =
                         [thread EXCEPT ![analysis_id].pc = "except_status"]
    /\ UNCHANGED <<ANALYSIS_STATUS, OUTPUT_DIR, clock, request,
                   status_response, result_response>>
    /\ UNCHANGED pipeline

\* background_ocr_analysis_thread, final set_analysis_status with
\* analysis_result.status; the finally clause removes the uploaded file
SetFinalStatus(analysis_id) ==
    /\ thread[analysis_id].pc = "save_status"
    /\ ANALYSIS_STATUS' =
          [ANALYSIS_STATUS EXCEPT ![analysis_id] =
              StatusEntry(100, thread[analysis_id].analysis_result.status)]
    /\ thread' = [thread EXCEPT ![analysis_id].pc = "done"]
    /\ UNCHANGED <<db, OUTPUT_DIR, clock, request, status_response,
                   result_response>>
    /\ UNCHANGED pipeline

\* background_ocr_analysis_thread, except Exception: the store entry is set
\* to failed
SetFailedStatus(analysis_id) ==
    /\ thread[analysis_id].pc = "except_status"
    /\ ANALYSIS_STATUS' =
          [ANALYSIS_STATUS EXCEPT ![analysis_id] = StatusEntry(0, "failed")]
    /\ thread' = [thread EXCEPT ![analysis_id].pc = "except_db"]
    /\ UNCHANGED <<db, OUTPUT_DIR, clock, request, status_response,
                   result_response>>
    /\ UNCHANGED pipeline

\* background_ocr_analysis_thread, except Exception: the row is set to failed
\* and committed inside try / except: pass; the finally clause removes the
\* uploaded file
SaveFailed(analysis_id) ==
    /\ thread[analysis_id].pc = "except_db"
    /\ \E committed \in BOOLEAN :
          db' = IF committed
                THEN [db EXCEPT ![analysis_id].status = "failed"]
                ELSE db
    /\ thread' = [thread EXCEPT ![analysis_id].pc = "done"]
    /\ UNCHANGED <<ANALYSIS_STATUS, OUTPUT_DIR, clock, request,
                   status_response, result_response>>
    /\ UNCHANGED pipeline

\* get_ocr_status, first statement: status_data = get_analysis_status(id).
\* The handlers run one at a time on the event loop; the worker threads run
\* beside them.
GetOcrStatusStart(analysis_id) ==
    /\ variant = "server"
    /\ request = NoRequest
    /\ request' = [analysis_id |-> analysis_id,
                   status_data |-> ANALYSIS_STATUS[analysis_id]]
    /\ UNCHANGED <<ANALYSIS_STATUS, db, thread, OUTPUT_DIR, clock,
                   status_response, result_response>>
    /\ UNCHANGED pipeline

\* get_ocr_status, the rest: the row is read and the response is built
GetOcrStatusReturn ==
    /\ request # NoRequest
    /\ status_response' =
          [status_response EXCEPT ![request.analysis_id] =
              StatusResponse(request.status_data, db[request.analysis_id])]
    /\ request' = NoRequest
    /\ UNCHANGED <<ANALYSIS_STATUS, db, thread, OUTPUT_DIR, clock,
                   result_response>>
    /\ UNCHANGED pipeline

\* get_ocr_result: the row is read; 404 without a row, 400 ("not yet
\* completed") unless its status is completed
GetOcrResult(analysis_id) ==
    /\ variant = "server"
    /\ request = NoRequest
    /\ result_response' =
          [result_response EXCEPT ![analysis_id] =
              ResultResponse(db[analysis_id])]
    /\ UNCHANGED <<ANALYSIS_STATUS, db, thread, OUTPUT_DIR, clock, request,
                   status_response>>
    /\ UNCHANGED pipeline

\* One analysis is requested and runs in its worker thread while the status
\* and result handlers are called at any time.
NextServer ==
    \/ \E engine \in Engines, visualization \in BOOLEAN :
          AnalyzeOcrAsync(1, engine, visualization)
    \/ SetProgressStatus(1)
    \/ CommitProgress(1)
    \/ AnalyzeDocument(1)
    \/ SaveToImg(1)
    \/ FindLatestFile(1)
    \/ MoveLatestFile(1)
    \/ AnalyzeWithPaddleReturn(1)
    \/ SaveResult(1)
    \/ SetFinalStatus(1)
    \/ SetFailedStatus(1)
    \/ SaveFailed(1)
    \/ GetOcrStatusStart(1)
    \/ GetOcrStatusReturn
    \/ GetOcrResult(1)

SpecServer == InitServer /\ [][NextServer]_vars

\* Every analysis of AnalysisIds is requested; their worker threads run at
\* the same time, a step of one between any two steps of the other.
NextConcurrent ==
    \/ \E a \in AnalysisIds, engine \in Engines, visualization \in BOOLEAN :
          AnalyzeOcrAsync(a, engine, visualization)
    \/ \E a \in AnalysisIds : SetProgressStatus(a)
    \/ \E a \in AnalysisIds : CommitProgress(a)
    \/ \E a \in AnalysisIds : AnalyzeDocument(a)
    \/ \E a \in AnalysisIds : SaveToImg(a)
    \/ \E a \in AnalysisIds : FindLatestFile(a)
    \/ \E a \in AnalysisIds : MoveLatestFile(a)
    \/ \E a \in AnalysisIds : AnalyzeWithPaddleReturn(a)
    \/ \E a \in AnalysisIds : SaveResult(a)
    \/ \E a \in AnalysisIds : SetFinalStatus(a)
    \/ \E a \in AnalysisIds : SetFailedStatus(a)
    \/ \E a \in AnalysisIds : SaveFailed(a)

SpecConcurrent == InitServer /\ [][NextConcurrent]_vars

-----------------------------------------------------------------------------
(* Properties                                                                *)

Density == variant \in {"PaddleOCR", "services"}

\* every rec_boxes entry unpacks into x1, y1, x2, y2
WellFormed == Unpacks(ocr_result.rec_boxes)

\* sort_text_with_bbox has returned the list it ordered to the caller
DensityReturned ==
    Density /\ WellFormed /\ pc = "done" /\ outcome = "returned"

\* cluster_columns_dbscan has returned from its grouping loop
Clustered == Density /\ pc = "sort_columns" /\ labels # <<>>

NumInputs == Len(ocr_result.rec_boxes)

Count(s, v) == Cardinality({k \in 1..Len(s) : s[k] = v})

\* the places <<column, position>> of the output that hold input element idx
Places(cols, idx) ==
    {<<c, k>> \in (1..Len(cols)) \X (1..NumInputs) :
        k <= Len(cols[c]) /\ cols[c][k].index = idx}

TotalLen(cols) == Sum([c \in 1..Len(cols) |-> Len(cols[c])])

\* mean_x of column a >= mean_x of column b, over their current members
MeanXAtLeast(a, b) == SumX(a) * Len(b) >= SumX(b) * Len(a)

\* C1: conservation on the density-based path.  A non-empty input of boxes
\* that unpack always returns; when sort_text_with_bbox has returned, every
\* input element sits at exactly one place of exactly one column, unchanged,
\* the columns hold nothing else, and the returned text list has each input
\* text as often as the input.
C1_Conservation ==
    /\ (Density /\ WellFormed /\ pc = "done" /\ NumInputs > 0)
          => outcome = "returned"
    /\ DensityReturned =>
        /\ \A idx \in 0..(NumInputs - 1) :
              /\ Cardinality(Places(columns, idx)) = 1
              /\ \A pl \in Places(columns, idx) :
                    columns[pl[1]][pl[2]] =
                        TextBox(idx + 1, ocr_result.rec_boxes[idx + 1],
                                ocr_result.rec_texts[idx + 1])
        /\ TotalLen(columns) = NumInputs
        /\ Len(sorted_text) = NumInputs
        /\ \A t \in Range(ocr_result.rec_texts) :
              Count(sorted_text, t) = Count(ocr_result.rec_texts, t)

\* C1 witness: a returned run over three elements in two columns, two of them
\* carrying the same text
C1_Witness ==
    /\ DensityReturned
    /\ NumInputs = 3
    /\ Len(columns) = 2
    /\ Count(ocr_result.rec_texts, "tian") = 2

\* C2: on the density-based path the returned columns are in non-increasing
\* order of mean_x, the mean being taken over each column's final members.
C2_ColumnOrder ==
    DensityReturned =>
        \A c \in 1..(Len(columns) - 1) : MeanXAtLeast(columns[c], columns[c + 1])

\* C2 witness: a returned run with three columns that the clusterer had
\* created in another order than the one returned
C2_Witness ==
    /\ DensityReturned
    /\ Len(columns) = 3
    /\ \E c \in 1..3 : Texts(columns[c]) # Texts(SortColumn(clusters[c].items))
    /\ SumX(columns[1]) * Len(columns[3]) > SumX(columns[3]) * Len(columns[1])

\* the centre of an Azure word: the mean of its polygon's y coordinates, times
\* the number of points (every polygon of the model has four)
WordCenterY4(w) == Sum([k \in 1..(Len(w.polygon) \div 2) |-> w.polygon[2 * k]])

\* C3: in every output column of both strategies consecutive elements have
\* non-decreasing center_y.
C3_IntraColumnOrder ==
    /\ DensityReturned =>
          \A c \in 1..Len(columns) : \A k \in 1..(Len(columns[c]) - 1) :
              columns[c][k].center_y <= columns[c][k + 1].center_y
    /\ (variant = "AzureOCR" /\ pc = "done") =>
          \A c \in 1..Len(vertical_lines) :
              \A k \in 1..(Len(vertical_lines[c]) - 1) :
                  WordCenterY4(vertical_lines[c][k])
                      <= WordCenterY4(vertical_lines[c][k + 1])

\* C4: the pipeline run on an empty detection list returns normally with
\* full_text = "", no column at all and an overall average confidence of 0.0.
C4_EmptyInput ==
    /\ (Density /\ NumInputs = 0 /\ pc = "done") =>
          /\ outcome = "returned"
          /\ full_text = ""
          /\ columns = <<>>
          /\ variant = "services" => confidence_score = Zero
    /\ (variant = "AzureOCR" /\ words_data = <<>> /\ pc = "done") =>
          (outcome = "returned" /\ vertical_lines = <<>>)

\* the input of Scenario C: six detections, one at center_x 9999 and five
\* whose center_x are mutually within eps and within eps of 100
ScenarioC(o) ==
    /\ Len(text_boxes) = 6
    /\ text_boxes[o].center_x = 2 * 9999
    /\ \A p \in (1..6) \ {o} :
          /\ Abs(text_boxes[p].center_x - 2 * 100) <= 2 * eps
          /\ \A q \in (1..6) \ {o} :
                Abs(text_boxes[p].center_x - text_boxes[q].center_x) <= 2 * eps

IndexSet(column) == {column[k].index : k \in 1..Len(column)}

\* C6 as stated: in Scenario C the outlier is labelled noise and joins the one
\* existing cluster, so the clusterer returns one column of six elements.
C6_OutlierReassigned ==
    \A o \in 1..6 :
        (Clustered /\ ScenarioC(o)) =>
            /\ labels[o] = NOISE
            /\ Len(columns) = 1
            /\ Len(columns[1]) = 6

\* C6 amended: in Scenario C (eps = 120, min_samples = 1) no element is
\* labelled noise; the outlier is a cluster of its own, and the clusterer
\* returns exactly two columns, one holding the five near elements and one
\* holding the outlier alone.
C6_OutlierOwnColumn ==
    \A o \in 1..6 :
        (Clustered /\ ScenarioC(o)) =>
            /\ \A p \in 1..6 : labels[p] # NOISE
            /\ Len(columns) = 2
            /\ \E c \in 1..2 :
                  /\ IndexSet(columns[c]) = {o - 1}
                  /\ Len(columns[c]) = 1
                  /\ IndexSet(columns[3 - c]) = (0..5) \ {o - 1}
                  /\ Len(columns[3 - c]) = 5

\* C6 witness: the clusterer has returned on a Scenario C input whose outlier
\* is neither the first nor the last detection
C6_Witness == Clustered /\ ScenarioC(3)

ScenarioA ==
    OcrResult(<<DetAt(500, 10, "tian", 90), DetAt(505, 50, "xia", 80),
                DetAt(10, 30, "tai", 70)>>)

\* C7: Scenario A returns two columns, first <<tian, xia>> with mean_x 502.5,
\* then <<tai>> with mean_x 10, and the full text tianxiatai.
C7_ScenarioA ==
    (Density /\ ocr_result = ScenarioA /\ pc = "done") =>
        /\ outcome = "returned"
        /\ Len(columns) = 2
        /\ Texts(columns[1]) = <<"tian", "xia">>
        /\ Texts(columns[2]) = <<"tai">>
        \* doubled means: 2 * 502.5 = SumX / 2 and 2 * 10 = SumX / 1
        /\ SumX(columns[1]) = 2 * 1005
        /\ SumX(columns[2]) = 2 * 10
        /\ sorted_text = <<"tian", "xia", "tai">>
        /\ full_text = "tianxiatai"

\* C7 witness: the services variant has returned on Scenario A
C7_Witness ==
    variant = "services" /\ ocr_result = ScenarioA /\ DensityReturned

\* the doubled center_x values of the input
Xs == {text_boxes[k].center_x : k \in 1..Len(text_boxes)}

\* a and b are joined by a chain of input points with steps of at most eps:
\* on a line, no point from the lower one up to (not including) the higher
\* one is followed by a gap wider than eps
Chained(a, b) ==
    LET lo == IF a < b THEN a ELSE b
        hi == IF a < b THEN b ELSE a
    IN  \A v \in Xs : (lo <= v /\ v < hi) =>
            \E w \in Xs : v < w /\ w <= v + 2 * eps

\* the leftmost point of each chain-connected group
GroupStarts == {v \in Xs : ~\E w \in Xs : w < v /\ v <= w + 2 * eps}

SameColumn(cols, p, q) ==
    \E c \in 1..Len(cols) : {p - 1, q - 1} \subseteq IndexSet(cols[c])

\* C8: two elements are in the same column of cluster_columns_dbscan exactly
\* when a chain of elements with steps of at most eps joins them, and a
\* non-empty input of k such groups gives exactly k columns.
C8_DensityConnectivity ==
    (Clustered \/ (DensityReturned /\ NumInputs > 0)) =>
        /\ \A p, q \in 1..Len(text_boxes) :
              SameColumn(columns, p, q)
                  <=> Chained(text_boxes[p].center_x, text_boxes[q].center_x)
        /\ Len(columns) = Cardinality(GroupStarts)

\* C8 witness: six elements in the five groups centred at 0, 200, 400, 600
\* and 800 came back as five columns
C8_Witness ==
    /\ Clustered
    /\ Len(text_boxes) = 6
    /\ \A g \in GroupCentres : \E v \in Xs : Abs(v - 2 * g) <= eps
    /\ Len(columns) = 5

\* the texts of the columns, column after column, written with \o only
RECURSIVE ConcatTexts(_, _, _)
ConcatTexts(cols, c, k) ==
    IF c > Len(cols) THEN ""
    ELSE IF k > Len(cols[c]) THEN ConcatTexts(cols, c + 1, 1)
         ELSE cols[c][k].text \o ConcatTexts(cols, c, k + 1)

\* C9: full_text is the texts of all elements, column by column in output
\* order and top to bottom inside a column, with nothing in between.
C9_Assembly ==
    DensityReturned =>
        /\ full_text = ConcatTexts(columns, 1, 1)
        /\ Len(full_text)
              = Sum([k \in 1..NumInputs |-> Len(ocr_result.rec_texts[k])])

\* C9 witness: a returned run with two columns, three elements, and an empty
\* text among them
C9_Witness ==
    /\ DensityReturned
    /\ Len(columns) = 2
    /\ Len(columns[1]) = 2
    /\ "" \in Range(sorted_text)
    /\ full_text # ""

\* C10: a clusterer called with eps <= 0 or threshold < 0 ends in a
\* ConfigurationError and returns no columns.
C10_InvalidParameters ==
    /\ (variant = "AzureOCR" /\ threshold < 0 /\ pc = "done") =>
          (outcome = "ConfigurationError" /\ vertical_lines = <<>>)
    /\ (Density /\ eps <= 0 /\ pc = "done") =>
          (outcome = "ConfigurationError" /\ columns = <<>>)

\* the positions of the input whose box unpacks
GoodPositions == {k \in 1..NumInputs : Len(ocr_result.rec_boxes[k]) = 4}

\* the input without the detections whose box does not unpack
GoodBoxes == SelectSeq(ocr_result.rec_boxes, LAMBDA b : Len(b) = 4)
GoodTexts ==
    LET pos(r) == CHOOSE k \in GoodPositions :
                      Cardinality({j \in GoodPositions : j < k}) = r - 1
    IN  [r \in 1..Cardinality(GoodPositions) |-> ocr_result.rec_texts[pos(r)]]

\* C11: when one detection of the input has a malformed box, the density
\* path returns normally, that detection alone is missing from the returned
\* texts, and the texts of the others are in the order of their columns
\* (right to left, top to bottom inside a column).
C11_MalformedDropped ==
    (Density /\ pc = "done" /\ Cardinality(GoodPositions) = NumInputs - 1) =>
        /\ outcome = "returned"
        /\ Len(sorted_text) = NumInputs - 1
        /\ sorted_text = FlattenTexts(OrderedColumns(GoodBoxes, GoodTexts), 1)

\* the confidences that are not None
NotNone(words) == SelectSeq(Confidences(words), LAMBDA c : ~IsNoneScore(c))

\* C12: whenever the set of confidences being averaged is empty, the
\* aggregation returns normally and the average it reports is 0.0:
\* calculate_confidence_stats, analyze_with_azure, _process_azure_result and
\* the page confidence of analyze_with_paddle.  No reported average has a
\* zero divisor.
C12_NoDivisionByZero ==
    /\ (variant = "stats" /\ pc = "done" /\ NotNone(words_data) = <<>>) =>
          (outcome = "returned" /\ confidence_score = Zero)
    /\ (variant = "analyze_with_azure" /\ pc = "done" /\ words_data = <<>>) =>
          (outcome = "returned" /\ confidence_score = Zero)
    /\ (variant \in {"process_azure_result", "process_paddle_result"}
          /\ pc = "done" /\ words_data = <<>>)
          => (outcome = "returned" /\ confidence_score = Zero)
    /\ (variant = "services" /\ pc = "done"
          /\ \A k \in 1..NumInputs : IsNoneScore(ocr_result.rec_scores[k])) =>
          (outcome = "returned" /\ confidence_score = Zero)
    /\ (pc = "done" /\ outcome = "returned" /\ confidence_score # None) =>
          confidence_score[2] > 0

\* C12 witness: calculate_confidence_stats has returned 0.0 for two words
\* that both carry a None confidence
C12_Witness ==
    /\ variant = "stats"
    /\ pc = "done"
    /\ Len(words_data) = 2
    /\ NotNone(words_data) = <<>>
    /\ outcome = "returned"
    /\ confidence_score = Zero

\* the centre of an Azure word: the mean of its polygon's x coordinates, times
\* the number of points (every polygon of the model has four)
WordCenterX4(w) ==
    Sum([k \in 1..(Len(w.polygon) \div 2) |-> w.polygon[2 * k - 1]])

SumWordCenterX4(line) == Sum([k \in 1..Len(line) |-> WordCenterX4(line[k])])

Sequential == variant = "AzureOCR"

\* group_words_by_vertical_lines has returned vertical_lines
SequentialReturned == Sequential /\ pc = "done" /\ outcome = "returned"

\* C13: the sequential strategy returns its columns in non-increasing order
\* of mean center_x, the rightmost column first.
C13_SequentialColumnOrder ==
    SequentialReturned =>
        \A c \in 1..(Len(vertical_lines) - 1) :
            SumWordCenterX4(vertical_lines[c]) * Len(vertical_lines[c + 1])
                >= SumWordCenterX4(vertical_lines[c + 1])
                       * Len(vertical_lines[c])

\* C14: an input of exactly one element gives exactly one column that holds
\* exactly that element, on the density path (boxes that unpack) and on the
\* sequential path (any threshold).
C14_SingleElement ==
    /\ (Density /\ WellFormed /\ NumInputs = 1 /\ pc = "done") =>
          /\ outcome = "returned"
          /\ Len(columns) = 1
          /\ columns[1] = <<TextBox(1, ocr_result.rec_boxes[1],
                                    ocr_result.rec_texts[1])>>
          /\ sorted_text = <<ocr_result.rec_texts[1]>>
    /\ (Sequential /\ Len(words_data) = 1 /\ pc = "done") =>
          /\ outcome = "returned"
          /\ vertical_lines = <<<<words_data[1]>>>>

\* C14 witness: the sequential path has returned the one word it was given,
\* with the threshold -1 that no distance satisfies
C14_Witness ==
    /\ SequentialReturned
    /\ Len(words_data) = 1
    /\ threshold < 0
    /\ Len(vertical_lines) = 1

\* the place <<column, position>> of input element idx in the returned columns
PlaceOf(idx) == CHOOSE pl \in Places(columns, idx) : TRUE

\* place a comes before place b in reading order
PlaceBefore(a, b) == a[1] < b[1] \/ (a[1] = b[1] /\ a[2] < b[2])

\* input elements p < q (1-based) have the same center_x and the same center_y
DegenerateTie(p, q) ==
    /\ p < q
    /\ text_boxes[p].center_x = text_boxes[q].center_x
    /\ text_boxes[p].center_y = text_boxes[q].center_y

\* C15: on the density path two elements with identical center_x and
\* center_y are returned in the same column, in the relative order they had
\* in the input.
C15_DegenerateTie ==
    DensityReturned =>
        \A p, q \in 1..NumInputs :
            DegenerateTie(p, q) =>
                /\ PlaceOf(p - 1)[1] = PlaceOf(q - 1)[1]
                /\ PlaceBefore(PlaceOf(p - 1), PlaceOf(q - 1))

\* C15 witness: a returned run in which the first and the last of four input
\* elements are a degenerate tie, share their column with a third element
\* and do not have the same box
C15_Witness ==
    /\ DensityReturned
    /\ NumInputs = 4
    /\ DegenerateTie(1, 4)
    /\ text_boxes[1].box # text_boxes[4].box
    /\ Len(columns[PlaceOf(0)[1]]) >= 3

\* the list s with the elements at positions p and q exchanged
Swap(s, p, q) ==
    [k \in 1..Len(s) |-> IF k = p THEN s[q] ELSE IF k = q THEN s[p] ELSE s[k]]

\* the columns without the input positions of their elements
ColumnsView(cols) ==
    [c \in 1..Len(cols) |->
        [k \in 1..Len(cols[c]) |-> <<cols[c][k].box, cols[c][k].text>>]]

\* no two elements of one column have equal center_y, no two columns have
\* equal mean_x
NoTies(cols) ==
    /\ \A c \in 1..Len(cols) : \A k, j \in 1..Len(cols[c]) :
          k # j => cols[c][k].center_y # cols[c][j].center_y
    /\ \A c, d \in 1..Len(cols) :
          c # d => SumX(cols[c]) * Len(cols[d]) # SumX(cols[d]) * Len(cols[c])

\* C16: when the returned columns have no tie (no equal center_y inside a
\* column, no equal mean_x between columns), sort_text_with_bbox applied to
\* the input with any two elements exchanged gives the same ordered columns
\* and the same full_text.  Exchanges generate every permutation, and the
\* free inputs contain every permutation of each of their members.
C16_PermutationInvariance ==
    (DensityReturned /\ NoTies(columns)) =>
        \A p, q \in 1..NumInputs :
            p < q =>
                LET cols == OrderedColumns(Swap(ocr_result.rec_boxes, p, q),
                                           Swap(ocr_result.rec_texts, p, q))
                IN  /\ ColumnsView(cols) = ColumnsView(columns)
                    /\ Join(FlattenTexts(cols, 1)) = full_text

\* C16 witness: a returned run without ties over four different elements in
\* two columns, given in another order than the one returned
C16_Witness ==
    /\ DensityReturned
    /\ NoTies(columns)
    /\ NumInputs = 4
    /\ Len(columns) = 2
    /\ Len(columns[1]) = 2
    /\ sorted_text # ocr_result.rec_texts
    /\ Cardinality(Range(ocr_result.rec_boxes)) = 4

\* |center_x of word - mean center_x of line| <= th
CentreJoins(word, line, th) ==
    Abs(WordCenterX4(word) * Len(line) - SumWordCenterX4(line))
        <= 4 * th * Len(line)

\* the column that was open when the loop took up its latest word: the open
\* column without that word if the word joined it, else the column closed last
OpenBefore ==
    IF Len(current_line) >= 2
    THEN SubSeq(current_line, 1, Len(current_line) - 1)
    ELSE vertical_lines[Len(vertical_lines)]

\* C17: the sequential strategy takes the elements in ascending center_x
\* order, and the element taken last has joined the open column exactly when
\* its center_x is within threshold of the mean center_x of that column's
\* elements (equality joins); otherwise it has closed the column and started
\* a new one.
C17_SequentialRule ==
    (Sequential /\ pc = "words_loop") =>
        /\ \A k \in 1..(Len(sorted_words) - 1) :
              WordCenterX4(sorted_words[k]) <= WordCenterX4(sorted_words[k + 1])
        /\ i >= 3 =>
              (Len(current_line) >= 2
                  <=> CentreJoins(sorted_words[i - 1], OpenBefore, threshold))

\* the words of all columns, column after column
RECURSIVE FlattenLines(_, _)
FlattenLines(lines, c) ==
    IF c > Len(lines) THEN <<>>
    ELSE lines[c] \o FlattenLines(lines, c + 1)

\* lists a and b hold the same elements, each as often as the other
SameMembers(a, b) ==
    /\ Len(a) = Len(b)
    /\ \A v \in Range(a) \cup Range(b) : Count(a, v) = Count(b, v)

\* the columns closed so far stay as they are in the next state
ClosedColumnsKept ==
    /\ Len(vertical_lines') >= Len(vertical_lines)
    /\ \A c \in 1..Len(vertical_lines) : vertical_lines'[c] = vertical_lines[c]

\* C18: for a non-empty words_data the sequential path returns, its columns
\* are all non-empty and hold together exactly the input words, each as often
\* as the input does; and no step ever changes or removes a column that was
\* closed before.
C18_SequentialConservation ==
    /\ [](Sequential /\ pc = "done" /\ words_data # <<>> =>
            /\ outcome = "returned"
            /\ \A c \in 1..Len(vertical_lines) : vertical_lines[c] # <<>>
            /\ SameMembers(FlattenLines(vertical_lines, 1), words_data))
    /\ [][Sequential => ClosedColumnsKept]_vars

\* C18 witness: four words, one of them twice, have been returned in three
\* columns
C18_Witness ==
    /\ SequentialReturned
    /\ Len(words_data) = 4
    /\ Cardinality(Range(words_data)) = 3
    /\ Len(vertical_lines) = 3

\* element a comes before element b in the order (center_y, center_x, index)
TieBreakBefore(a, b) ==
    \/ a.center_y < b.center_y
    \/ /\ a.center_y = b.center_y
       /\ \/ a.center_x < b.center_x
          \/ (a.center_x = b.center_x /\ a.index < b.index)

\* C19: inside every returned column the elements are in ascending order of
\* center_y, elements with equal center_y in ascending order of center_x, and
\* elements equal in both in ascending order of their input index; on the
\* sequential path, words with equal center_y are in ascending center_x.
C19_IntraColumnTieBreak ==
    /\ DensityReturned =>
          \A c \in 1..Len(columns) : \A k \in 1..(Len(columns[c]) - 1) :
              TieBreakBefore(columns[c][k], columns[c][k + 1])
    /\ SequentialReturned =>
          \A c \in 1..Len(vertical_lines) :
              \A k \in 1..(Len(vertical_lines[c]) - 1) :
                  WordCenterY4(vertical_lines[c][k])
                          = WordCenterY4(vertical_lines[c][k + 1])
                      => WordCenterX4(vertical_lines[c][k])
                             <= WordCenterX4(vertical_lines[c][k + 1])

\* cluster k of the dict is at most as far from item as cluster j:
\* |x - mean_k| <= |x - mean_j|, the means taken over the current members
AtMostAsFar(item, k, j) ==
    Abs(item.center_x * Len(clusters[k].items) - SumX(clusters[k].items))
            * Len(clusters[j].items)
        <= Abs(item.center_x * Len(clusters[j].items) - SumX(clusters[j].items))
            * Len(clusters[k].items)

\* cluster k is the nearest to item, and the first created of the nearest
NearestFirst(item, k) ==
    /\ \A j \in 1..Len(clusters) : AtMostAsFar(item, k, j)
    /\ \A j \in 1..(k - 1) : ~AtMostAsFar(item, j, k)

Assigned(cl) == UNION {IndexSet(cl[k].items) : k \in 1..Len(cl)}

\* the number of elements the dict holds, an element held twice counted twice
Held(cl) == Sum([k \in 1..Len(cl) |-> Len(cl[k].items)])

\* C21: the assignment loop of cluster_columns_dbscan on N elements has made
\* i - 1 <= N iterations and holds exactly the first i - 1 elements, each
\* once; an iteration assigns exactly one element that was not assigned and
\* leaves every assigned element in its cluster; the loop ends, and when it
\* has ended every element is assigned.
C21_LoopTermination ==
    /\ [](pc = "group" =>
            /\ i - 1 <= Len(text_boxes)
            /\ Assigned(clusters) = 0..(i - 2)
            /\ Held(clusters) = i - 1)
    /\ [][pc = "group" /\ pc' = "group" =>
            /\ i' = i + 1
            /\ Assigned(clusters') = Assigned(clusters) \cup {i - 1}
            /\ (i - 1) \notin Assigned(clusters)
            /\ \A k \in 1..Len(clusters) :
                  /\ clusters'[k].label = clusters[k].label
                  /\ IndexSet(clusters[k].items)
                        \subseteq IndexSet(clusters'[k].items)]_vars
    /\ [](pc = "sort_columns" =>
            /\ i = Len(text_boxes) + 1
            /\ Assigned(clusters) = 0..(Len(text_boxes) - 1)
            /\ TotalLen(columns) = Len(text_boxes))
    /\ (pc = "group" ~> pc = "sort_columns")

\* C21 witness: the loop has ended on four elements, two of them labelled
\* noise, with all four in the returned columns
C21_Witness ==
    /\ variant = "grouping_loop"
    /\ pc = "sort_columns"
    /\ Len(text_boxes) = 4
    /\ Count(labels, NOISE) = 2
    /\ TotalLen(columns) = 4

\* _process_azure_result or _process_paddle_result runs
Processing == variant \in {"process_azure_result", "process_paddle_result"}

\* C22: every detection's center_x / center_y is the arithmetic mean of the
\* x / y coordinates of its polygon's points and its bounding box is their
\* min / max: for the words _process_azure_result and _process_paddle_result
\* extract, and for the x and y the sequential path groups and orders by.
C22_Normalization ==
    /\ (Processing /\ pc = "group_lines") =>
          \A k \in 1..Len(text_boxes) :
              LET w == text_boxes[k]
                  xs == XCoords(w.polygon)
                  ys == YCoords(w.polygon)
              IN  /\ w.center_x * Len(xs) = 2 * Sum(xs)
                  /\ w.center_y * Len(ys) = 2 * Sum(ys)
                  /\ w.bbox = <<Min(xs), Min(ys),
                                Max(xs) - Min(xs), Max(ys) - Min(ys)>>
    /\ (Sequential /\ pc = "words_loop") =>
          \A k \in 1..Len(sorted_words) :
              /\ 4 * PolygonX(sorted_words[k]) = WordCenterX4(sorted_words[k])
              /\ 4 * PolygonY(sorted_words[k]) = WordCenterY4(sorted_words[k])

\* C23: on the density path no element is ever labelled noise, so no
\* iteration of the grouping loop takes the noise branch (the one place that
\* calls find_nearest_cluster), every element stays in the dict entry of its
\* own label, and the clusterer returns as many columns as the center_x
\* values have eps-connected groups.
C23_NoNoise ==
    /\ Density => \A p \in 1..Len(labels) : labels[p] # NOISE
    /\ (Density /\ pc = "group") =>
          \A k \in 1..Len(clusters) :
              \A j \in 1..Len(clusters[k].items) :
                  labels[clusters[k].items[j].index + 1] = clusters[k].label
    /\ Clustered => Len(columns) = Cardinality(GroupStarts)

\* C23 witness: the clusterer has returned three columns for four elements;
\* two of the columns hold one element each, with no other element within eps
C23_Witness ==
    /\ Clustered
    /\ Len(text_boxes) = 4
    /\ Len(columns) = 3
    /\ Cardinality({c \in 1..3 : Len(columns[c]) = 1}) = 2
    /\ Cardinality(Range(labels)) = 3

CentreXs(column) == {column[k].center_x : k \in 1..Len(column)}

\* every element of column a is more than eps left of every element of b
LeftOf(a, b) == \A x \in CentreXs(a) : \A y \in CentreXs(b) : y - x > 2 * eps

\* the mean_x of columns a and b differ by more than eps
MeansApart(a, b) ==
    Abs(SumX(a) * Len(b) - SumX(b) * Len(a)) > 2 * eps * Len(a) * Len(b)

\* C24: any two distinct columns of the density path lie, as a whole, more
\* than eps apart in center_x, one entirely left of the other, and so do
\* their mean_x; the returned columns are in strictly decreasing order of
\* mean_x.
C24_DensitySeparation ==
    /\ (Clustered \/ DensityReturned) =>
          \A c, d \in 1..Len(columns) :
              c # d =>
                  /\ LeftOf(columns[c], columns[d])
                        \/ LeftOf(columns[d], columns[c])
                  /\ MeansApart(columns[c], columns[d])
    /\ DensityReturned =>
          \A c \in 1..(Len(columns) - 1) :
              /\ MeanXGreater(columns[c], columns[c + 1])
              /\ LeftOf(columns[c + 1], columns[c])

\* C24 witness: a returned run with two columns of two elements each whose
\* nearest elements are eps + 1 apart
C24_Witness ==
    /\ DensityReturned
    /\ Len(columns) = 2
    /\ Len(columns[1]) = 2
    /\ Len(columns[2]) = 2
    /\ \E x \in CentreXs(columns[1]) : \E y \in CentreXs(columns[2]) :
          x - y = 2 * eps + 2

PolygonXs(line) == {PolygonX(line[k]) : k \in 1..Len(line)}

\* the number of words in the columns before column c
WordsBefore(lines, c) == Sum([d \in 1..(c - 1) |-> Len(lines[d])])

\* C25: when group_words_by_vertical_lines has returned (threshold >= 0), the
\* smallest first-point x of each column after the first exceeds the mean x
\* of the column before it by more than threshold; each column holds the
\* words of one contiguous run of the x-sorted input; and the mean x of the
\* columns is strictly increasing in output order.
C25_SequentialSeparation ==
    (SequentialReturned /\ threshold >= 0) =>
        /\ \A c \in 1..(Len(vertical_lines) - 1) :
              LET a == vertical_lines[c]
                  b == vertical_lines[c + 1]
              IN  /\ \A x \in PolygonXs(b) :
                        x * Len(a) - SumPolygonX(a) > threshold * Len(a)
                  /\ SumPolygonX(b) * Len(a) > SumPolygonX(a) * Len(b)
        /\ \A c \in 1..Len(vertical_lines) :
              LET s == WordsBefore(vertical_lines, c)
              IN  SameMembers(vertical_lines[c],
                              SubSeq(sorted_words, s + 1,
                                     s + Len(vertical_lines[c])))

\* C25 witness: with threshold 50 the words at x = 100, 110, 150 came back as
\* one column and the word at x = 201, which is 51 right of 150 and 81 right
\* of the column's mean, as the next
C25_Witness ==
    /\ SequentialReturned
    /\ threshold = DEFAULT_THRESHOLD
    /\ Len(vertical_lines) = 2
    /\ PolygonXs(vertical_lines[1]) = {100, 110, 150}
    /\ PolygonXs(vertical_lines[2]) = {201}

\* C26: the services variant of sort_text_with_bbox always returns, and what
\* it returns holds the texts of rec_texts, each as often as rec_texts does:
\* on the normal path; when the clustering raised, where there is one column,
\* ordered by center_y; and when building text_boxes raised, where the texts
\* are in input order.
C26_FallbacksKeepTexts ==
    (variant = "services" /\ pc = "done") =>
        /\ outcome = "returned"
        /\ SameMembers(sorted_text, ocr_result.rec_texts)
        /\ (WellFormed /\ labels = <<>>) =>
              /\ Len(columns) = 1
              /\ \A k \in 1..(Len(columns[1]) - 1) :
                    columns[1][k].center_y <= columns[1][k + 1].center_y
              /\ sorted_text = Texts(columns[1])
        /\ ~WellFormed => sorted_text = ocr_result.rec_texts

\* C26 witness: the services variant has returned the three texts of an input
\* whose second box does not unpack, in input order, which is not the order
\* of the columns
C26_Witness ==
    /\ variant = "services"
    /\ pc = "done"
    /\ NumInputs = 3
    /\ Len(ocr_result.rec_boxes[2]) # 4
    /\ sorted_text = ocr_result.rec_texts
    /\ text_boxes = <<>>
    /\ CenterX(ocr_result.rec_boxes[1]) < CenterX(ocr_result.rec_boxes[3])

\* C27: when _process_azure_result or _process_paddle_result has extracted at
\* least one detection, the result it returns has word_count equal to the
\* number of extracted detections, a full_text made of the text of every
\* detection once, and lines whose words are exactly the detections.
C27_ProcessedResultComplete ==
    (Processing /\ pc = "done" /\ text_boxes # <<>>) =>
        /\ outcome = "returned"
        /\ word_count = Len(text_boxes)
        /\ Len(full_text)
              = Sum([k \in 1..Len(text_boxes) |-> Len(text_boxes[k].text)])
        /\ SameMembers(FlattenLines(vertical_lines, 1), text_boxes)

\* C28: once the worker thread of an analysis has finished, on whatever path,
\* the status store entry and the database row of the analysis hold the same
\* status, and that status is completed or failed, never queued or processing.
C28_TerminalStatus ==
    \A a \in AnalysisIds :
        thread[a].pc = "done" =>
            /\ ANALYSIS_STATUS[a].status = db[a].status
            /\ db[a].status \in {"completed", "failed"}

\* C29: whenever get_ocr_status has reported completed for an analysis,
\* get_ocr_result of the same analysis does not answer 400 "not yet
\* completed"; the store entry says completed only after the row does.
C29_StatusResultConsistent ==
    \A a \in AnalysisIds :
        /\ status_response[a] = "completed" => ResultResponse(db[a]) = "200"
        /\ ANALYSIS_STATUS[a].status = "completed" =>
              db[a].status = "completed"

\* get_ocr_status has reported completed and get_ocr_result has answered
C29_Witness ==
    /\ status_response[1] = "completed"
    /\ result_response[1] = "200"
    /\ thread[1].engine = "paddle"

\* C30: when two PaddleOCR analyses run at the same time, the
\* visualization_path returned for an analysis never names the image that was
\* generated from the input of the other analysis.
C30_NoCrossTalk ==
    \A a \in AnalysisIds :
        LET visualization_path == thread[a].analysis_result.visualization_path
        IN  (visualization_path # None
                /\ OUTPUT_DIR[visualization_path] # NoFile) =>
                OUTPUT_DIR[visualization_path].image = a

====
